---- MODULE Spec2Model ----
(***************************************************************************)
(* A model of the BrainSims toolkit: simulateCycles.py (build_toy_brain,   *)
(* activate_cycles), analysisTools.py (find_all_cycles) and                *)
(* pcnImplementation.py (collapse_graph, pcn_analysis).                    *)
(*                                                                         *)
(* A networkx DiGraph is the record [nodes, edges]: a set of node ids and  *)
(* a set of ordered pairs <<u, v>> (no parallel edges, self-loops allowed).*)
(* Each function of the source is one specification: SpecSim, SpecCycles,  *)
(* SpecMotifs, SpecCollapse and SpecBuild.  The variables of the functions *)
(* a specification does not run stay at their idle values.                 *)
(***************************************************************************)
EXTENDS Integers, Sequences, FiniteSets, TLC

VARIABLES
    G,                    \* the graph the running function works on
    pc,                   \* the position of the running function
    outcome,              \* "none" while running, then "ok" or the exception raised
    \* activate_cycles
    activation_threshold, steps, t, active, new_active, hist, result,
    \* find_all_cycles
    max_length, n, dfs_stack, cycles,
    \* pcn_analysis
    mnode, queue, motif_counts,
    \* collapse_graph
    clustering, H,
    \* build_toy_brain
    n_nodes, n_cycles, iter

simVars == <<activation_threshold, steps, t, active, new_active, hist, result>>
cycVars == <<max_length, n, dfs_stack, cycles>>
motVars == <<mnode, queue, motif_counts>>
colVars == <<clustering, H>>
bldVars == <<n_nodes, n_cycles, iter>>
vars == <<G, pc, outcome, simVars, cycVars, motVars, colVars, bldVars>>

(***************************************************************************)
(* Graphs                                                                  *)
(***************************************************************************)

\* range(k): the node ids 0 .. k-1
Range(k) == 0 .. (k - 1)

\* all ordered pairs over a node set (self-loops included)
Pairs(S) == S \X S

\* the ordered pairs of distinct nodes
ProperPairs(S) == {e \in S \X S : e[1] # e[2]}

\* every subset of the pair set P with at most k edges
RECURSIVE EdgeSets(_, _)
EdgeSets(P, k) ==
    IF k = 0 THEN {{}}
    ELSE LET smaller == EdgeSets(P, k - 1)
         IN  smaller \cup {s \cup {e} : s \in smaller, e \in P}

\* G.predecessors(v)
Predecessors(g, v) == {u \in g.nodes : <<u, v>> \in g.edges}

\* G.successors(u)
Successors(g, u) == {v \in g.nodes : <<u, v>> \in g.edges}

\* the orders in which a set can be iterated
Orders(S) ==
    {f \in [1 .. Cardinality(S) -> S] :
        \A i, j \in 1 .. Cardinality(S) : i # j => f[i] # f[j]}

\* x in seq
InSeq(x, seq) == \E i \in 1 .. Len(seq) : seq[i] = x

IdleSim ==
    /\ activation_threshold = 0 /\ steps = 0 /\ t = 0 /\ active = <<>>
    /\ new_active = <<>> /\ hist = <<>> /\ result = <<>>

IdleCyc == max_length = 0 /\ n = 0 /\ dfs_stack = <<>> /\ cycles = <<>>

IdleMot == mnode = 0 /\ queue = <<>> /\ motif_counts = <<>>

IdleCol == clustering = <<>> /\ H = <<>>

IdleBld == n_nodes = 0 /\ n_cycles = 0 /\ iter = 0

(***************************************************************************)
(* activate_cycles (simulateCycles.py)                                     *)
(***************************************************************************)

SimNodes == 4
SimMaxEdges == 3
MaxSteps == 3
MaxThreshold == 1

\* the graphs activate_cycles is run on: main() passes it a graph built by
\* build_toy_brain, whose nodes are range(n_nodes) and whose edges join
\* distinct nodes of one random.sample
SimGraphs == {[nodes |-> Range(SimNodes), edges |-> E] :
                 E \in EdgeSets(ProperPairs(Range(SimNodes)), SimMaxEdges)}

\* random.sample(G.nodes(), k=len(G.nodes()) // 4): every set of that size
StartActiveSets(g) ==
    {S \in SUBSET g.nodes : Cardinality(S) = Cardinality(g.nodes) \div 4}

\* active = {node: False ...}; for s in start_active: active[s] = True
SeedActive(g, start_active) == [v \in g.nodes |-> v \in start_active]

InitSim ==
    /\ G \in SimGraphs
    /\ steps \in 0 .. MaxSteps
    /\ activation_threshold \in 0 .. MaxThreshold
    /\ \E start_active \in StartActiveSets(G) :
          /\ active = SeedActive(G, start_active)
          /\ hist = <<SeedActive(G, start_active)>>
    /\ new_active = <<>>
    /\ t = 0
    /\ result = <<>>
    /\ pc = "loop"
    /\ outcome = "none"
    /\ IdleCyc /\ IdleMot /\ IdleCol /\ IdleBld

\* a fresh all-inactive state instead of a copy of the current one
FreshActive(act) == [v \in DOMAIN act |-> FALSE]

\* new_active = active.copy()
CopyActive(act) == act

\* the count taken from the state being built instead of the start-of-step state
ActivePredecessorsInProgress(g, act, nact, v) ==
    Cardinality({pr \in Predecessors(g, v) : nact[pr]})

\* sum(active[pr] for pr in G.predecessors(node)), where both active and
\* new_active are in scope
ActivePredecessors(g, act, nact, v) ==
    Cardinality({pr \in Predecessors(g, v) : act[pr]})

\* the body of "for node in G.nodes()" for one node
VisitNode(g, thr, act, nact, v) ==
    IF ActivePredecessors(g, act, nact, v) >= thr
    THEN [nact EXCEPT ![v] = TRUE]
    ELSE nact

\* "for node in G.nodes()" from node v on; nodes are visited in insertion
\* order, which is ascending (the graphs are closed under renaming of nodes,
\* so every visiting order of every graph is covered)
RECURSIVE VisitNodes(_, _, _, _, _)
VisitNodes(g, thr, act, nact, v) ==
    IF v \notin g.nodes THEN nact
    ELSE VisitNodes(g, thr, act, VisitNode(g, thr, act, nact, v), v + 1)

\* the seeding of lines 46-48 repeated inside the loop, before every step
StepReseed ==
    /\ pc = "loop"
    /\ t < steps
    /\ \E start_active \in StartActiveSets(G) :
          LET seeded == [v \in G.nodes |-> active[v] \/ v \in start_active]
          IN  new_active' = VisitNodes(G, activation_threshold, seeded, seeded, 0)
    /\ active' = new_active'
    /\ hist' = Append(hist, new_active')
    /\ t' = t + 1
    /\ UNCHANGED <<G, pc, outcome, activation_threshold, steps, result>>
    /\ UNCHANGED <<cycVars, motVars, colVars, bldVars>>

\* one iteration of "for t in range(steps)": the copy, the sweep over the
\* nodes, and active = new_active
Step ==
    /\ pc = "loop"
    /\ t < steps
    /\ new_active' = VisitNodes(G, activation_threshold, active, CopyActive(active), 0)
    /\ active' = new_active'
    /\ hist' = Append(hist, new_active')
    /\ t' = t + 1
    /\ UNCHANGED <<G, pc, outcome, activation_threshold, steps, result>>
    /\ UNCHANGED <<cycVars, motVars, colVars, bldVars>>

\* return active
ReturnActive ==
    /\ pc = "loop"
    /\ t = steps
    /\ result' = active
    /\ outcome' = "ok"
    /\ pc' = "done"
    /\ UNCHANGED <<G, activation_threshold, steps, t, active, new_active, hist>>
    /\ UNCHANGED <<cycVars, motVars, colVars, bldVars>>

NextSim == Step \/ ReturnActive

SpecSim == InitSim /\ [][NextSim]_vars

(***************************************************************************)
(* Claims about activate_cycles.  hist[i] is the activation state after    *)
(* step i-1 (hist[1] is the seeded state).                                 *)
(***************************************************************************)

\* the set of nodes a state marks active
ActiveSet(st) == {v \in DOMAIN st : st[v]}

\* C1: a node active after step t is active after every later step of the
\* same run and in the returned final state.
C1_Monotone ==
    /\ \A i, j \in 1 .. Len(hist) :
          i < j => ActiveSet(hist[i]) \subseteq ActiveSet(hist[j])
    /\ pc = "done" =>
          \A i \in 1 .. Len(hist) : ActiveSet(hist[i]) \subseteq ActiveSet(result)

\* a finished run in which a node became active at step 1, another at step 2
C1_Witness ==
    /\ pc = "done"
    /\ Len(hist) >= 3
    /\ ActiveSet(hist[1]) # {}
    /\ ActiveSet(hist[1]) # ActiveSet(hist[2])
    /\ ActiveSet(hist[2]) # ActiveSet(hist[3])
    /\ ActiveSet(hist[2]) \subseteq ActiveSet(result)

\* the state a synchronous step yields from state st
SyncStep(st) ==
    [v \in G.nodes |->
        st[v] \/ Cardinality({pr \in Predecessors(G, v) : st[pr]})
                     >= activation_threshold]

\* the cycle 0 -> 1 -> 2 -> 0
Triangle == {<<0, 1>>, <<1, 2>>, <<2, 0>>}

\* C2: every step is a synchronous update: a node is active after the step
\* iff it was active before it or at least activation_threshold of its
\* predecessors were active before it; on the cycle 0->1->2->0 seeded with
\* {0} at threshold 1, step 1 activates node 1 only and step 2 node 2.
C2_Synchronous ==
    /\ \A i \in 1 .. (Len(hist) - 1) : hist[i + 1] = SyncStep(hist[i])
    /\ (/\ G.edges = Triangle
        /\ activation_threshold = 1
        /\ Len(hist) >= 3
        /\ ActiveSet(hist[1]) = {0})
       => /\ ActiveSet(hist[2]) = {0, 1}
          /\ ActiveSet(hist[3]) = {0, 1, 2}

\* two steps done on the cycle 0->1->2->0 seeded with {0} at threshold 1
C2_Witness ==
    /\ G.edges = Triangle
    /\ activation_threshold = 1
    /\ Len(hist) = 3
    /\ ActiveSet(hist[1]) = {0}
    /\ ActiveSet(hist[3]) = {0, 1, 2}

\* C10: once a step changes nothing, no later step changes anything, and the
\* run still does all its steps.
C10_FixedPoint ==
    /\ \A i \in 1 .. (Len(hist) - 1) :
          hist[i] = hist[i + 1] => \A j \in i .. Len(hist) : hist[j] = hist[i]
    /\ pc = "done" =>
          /\ Len(hist) = steps + 1
          /\ \A i \in 1 .. (Len(hist) - 1) : hist[i] = hist[i + 1] => result = hist[i]

\* a finished run whose step 1 changed the state, whose step 2 changed
\* nothing, and which ran a third step
C10_Witness ==
    /\ pc = "done"
    /\ Len(hist) = 4
    /\ hist[1] # hist[2]
    /\ hist[2] = hist[3]
    /\ result = hist[2]
    /\ \E v \in G.nodes : ~result[v]

(***************************************************************************)
(* find_all_cycles (analysisTools.py)                                      *)
(***************************************************************************)

CycNodes == 3
CycMaxEdges == 4
MaxLength == 3

\* the graphs find_all_cycles is run on: any DiGraph over range(CycNodes)
CycGraphs == {[nodes |-> Range(CycNodes), edges |-> E] :
                 E \in EdgeSets(Pairs(Range(CycNodes)), CycMaxEdges)}

InitCycles ==
    /\ G \in CycGraphs
    /\ max_length \in 1 .. MaxLength
    /\ n = 0
    /\ dfs_stack = <<>>
    /\ cycles = <<>>
    /\ pc = "for"
    /\ outcome = "none"
    /\ IdleSim /\ IdleMot /\ IdleCol /\ IdleBld

\* a closing edge accepted from a path of one node
IsCycleFromOne(neighbor, start, path, ml) ==
    neighbor = start /\ Len(path) >= 1 /\ Len(path) <= ml

\* neighbor == n and len(path) > 1 and len(path) <= max_length
IsCycle(neighbor, start, path, ml) ==
    neighbor = start /\ Len(path) > 1 /\ Len(path) <= ml

\* the length test off by one
CanExtendShort(neighbor, path, ml) ==
    ~InSeq(neighbor, path) /\ Len(path) < ml - 1

\* neighbor not in path and len(path) < max_length
CanExtend(neighbor, path, ml) ==
    ~InSeq(neighbor, path) /\ Len(path) < ml

\* "for neighbor in G.successors(current)" over the neighbors order[i..],
\* with the stack and the cycle list as they stand; yields both
RECURSIVE ForNeighbors(_, _, _, _, _, _, _)
ForNeighbors(order, i, start, path, ml, stack, cycs) ==
    IF i > Len(order) THEN [stack |-> stack, cycles |-> cycs]
    ELSE LET neighbor == order[i]
         IN  IF IsCycle(neighbor, start, path, ml)
             THEN ForNeighbors(order, i + 1, start, path, ml, stack,
                               Append(cycs, Append(path, start)))
             ELSE IF CanExtend(neighbor, path, ml)
             THEN ForNeighbors(order, i + 1, start, path, ml,
                               Append(stack, [current |-> neighbor,
                                              path |-> Append(path, neighbor)]),
                               cycs)
             ELSE ForNeighbors(order, i + 1, start, path, ml, stack, cycs)

\* for n in G.nodes(): dfs_stack = [(n, [n])]
StartNode ==
    /\ pc = "for"
    /\ n \in G.nodes
    /\ dfs_stack' = <<[current |-> n, path |-> <<n>>]>>
    /\ pc' = "while"
    /\ UNCHANGED <<G, outcome, max_length, n, cycles>>
    /\ UNCHANGED <<simVars, motVars, colVars, bldVars>>

\* one iteration of "while dfs_stack": the pop and the loop over the
\* successors, in whichever order the adjacency yields them
PopFrame ==
    /\ pc = "while"
    /\ dfs_stack # <<>>
    /\ LET top == dfs_stack[Len(dfs_stack)]
           rest == SubSeq(dfs_stack, 1, Len(dfs_stack) - 1)
       IN  \E order \in Orders(Successors(G, top.current)) :
              LET r == ForNeighbors(order, 1, n, top.path, max_length, rest, cycles)
              IN  dfs_stack' = r.stack /\ cycles' = r.cycles
    /\ UNCHANGED <<G, pc, outcome, max_length, n>>
    /\ UNCHANGED <<simVars, motVars, colVars, bldVars>>

\* the stack is empty: the next n
NextNode ==
    /\ pc = "while"
    /\ dfs_stack = <<>>
    /\ n' = n + 1
    /\ pc' = "for"
    /\ UNCHANGED <<G, outcome, max_length, dfs_stack, cycles>>
    /\ UNCHANGED <<simVars, motVars, colVars, bldVars>>

\* return cycles
ReturnCycles ==
    /\ pc = "for"
    /\ n \notin G.nodes
    /\ outcome' = "ok"
    /\ pc' = "done"
    /\ UNCHANGED <<G, max_length, n, dfs_stack, cycles>>
    /\ UNCHANGED <<simVars, motVars, colVars, bldVars>>

NextCycles == StartNode \/ PopFrame \/ NextNode \/ ReturnCycles

SpecCycles == InitCycles /\ [][NextCycles]_vars

(***************************************************************************)
(* Claims about find_all_cycles                                            *)
(***************************************************************************)

\* the node sequences of length len over S without a repeated node
SimplePaths(S, len) ==
    {p \in [1 .. len -> S] : \A i, j \in 1 .. len : i # j => p[i] # p[j]}

\* every simple directed cycle of g with 2 .. ml edges, once per starting
\* node, written as its nodes followed by the starting node again
SimpleCycles(g, ml) ==
    UNION {{Append(p, p[1]) : p \in {q \in SimplePaths(g.nodes, len) :
                /\ \A k \in 1 .. (len - 1) : <<q[k], q[k + 1]>> \in g.edges
                /\ <<q[len], q[1]>> \in g.edges}} : len \in 2 .. ml}

\* how often the sequence c occurs in the list cycs
Occurrences(cycs, c) == Cardinality({i \in 1 .. Len(cycs) : cycs[i] = c})

\* C3: every sequence in cycles starts and ends at the same node, repeats
\* no node before its last, follows an edge of G at every hop and has
\* between 2 and max_length edges (so no self-loop is emitted).
C3_CyclesWellFormed ==
    \A i \in 1 .. Len(cycles) :
        LET c == cycles[i]
            len == Len(c) - 1
        IN  /\ len >= 2 /\ len <= max_length
            /\ c[1] = c[len + 1]
            /\ \A j, k \in 1 .. len : j # k => c[j] # c[k]
            /\ \A k \in 1 .. len : <<c[k], c[k + 1]>> \in G.edges

\* a finished run on a graph with a self-loop that returned a 2-edge cycle
C3_Witness ==
    /\ pc = "done"
    /\ \E v \in G.nodes : <<v, v>> \in G.edges
    /\ \E i \in 1 .. Len(cycles) : Len(cycles[i]) = 3
    /\ \E i \in 1 .. Len(cycles) : Len(cycles[i]) = max_length + 1

\* C4: the returned list holds every rotation of every simple cycle of G
\* with 2 .. max_length edges exactly once, and nothing else; for the cycle
\* 0->1->2->0 and max_length 3 that is the three rotations.
C4_CyclesComplete ==
    pc = "done" =>
        /\ \A c \in SimpleCycles(G, max_length) : Occurrences(cycles, c) = 1
        /\ Len(cycles) = Cardinality(SimpleCycles(G, max_length))
        /\ (G.edges = Triangle /\ max_length = 3) =>
              {cycles[i] : i \in 1 .. Len(cycles)} =
                  {<<0, 1, 2, 0>>, <<1, 2, 0, 1>>, <<2, 0, 1, 2>>}

\* a finished run on the cycle 0->1->2->0 with max_length 3: three cycles
C4_Witness ==
    /\ pc = "done"
    /\ G.edges = Triangle
    /\ max_length = 3
    /\ Len(cycles) = 3

(***************************************************************************)
(* pcn_analysis (pcnImplementation.py)                                     *)
(***************************************************************************)

MotNodes == 3
MotMaxEdges == 4

\* the 3 of "len(path) > 3" and "len(new_path) <= 3": a bound on the number
\* of nodes of a path
PathLimit == 3

\* the graphs pcn_analysis is run on: main() passes it a graph built by
\* build_toy_brain and a collapsed graph, neither of which has a self-loop
MotGraphs == {[nodes |-> Range(MotNodes), edges |-> E] :
                 E \in EdgeSets(ProperPairs(Range(MotNodes)), MotMaxEdges)}

InitMotifs ==
    /\ G \in MotGraphs
    /\ mnode = 0
    /\ queue = <<>>
    /\ motif_counts = <<>>
    /\ pc = "for"
    /\ outcome = "none"
    /\ IdleSim /\ IdleCyc /\ IdleCol /\ IdleBld

\* motif_counts[motif] = motif_counts.get(motif, 0) + 1
CountMotif(counts, motif) ==
    IF motif \in DOMAIN counts
    THEN [counts EXCEPT ![motif] = @ + 1]
    ELSE [m \in DOMAIN counts \cup {motif} |->
             IF m = motif THEN 1 ELSE counts[m]]

\* "for nbr in G.successors(curr)" over the neighbors order[i..], with the
\* queue and the count table as they stand; yields both
RECURSIVE ForSuccessors(_, _, _, _, _)
ForSuccessors(order, i, path, q, counts) ==
    IF i > Len(order) THEN [queue |-> q, counts |-> counts]
    ELSE LET nbr == order[i]
             new_path == Append(path, nbr)
         IN  IF Len(new_path) <= PathLimit
             THEN ForSuccessors(order, i + 1, path,
                                Append(q, [curr |-> nbr, path |-> new_path]),
                                CountMotif(counts, new_path))
             ELSE ForSuccessors(order, i + 1, path, q, counts)

\* for node in G.nodes(): queue = [(node, [node])]
MotifStart ==
    /\ pc = "for"
    /\ mnode \in G.nodes
    /\ queue' = <<[curr |-> mnode, path |-> <<mnode>>]>>
    /\ pc' = "while"
    /\ UNCHANGED <<G, outcome, mnode, motif_counts>>
    /\ UNCHANGED <<simVars, cycVars, colVars, bldVars>>

\* one iteration of "while queue": queue.pop() takes the last entry; a path
\* of more than PathLimit nodes is skipped, any other is extended by every
\* successor, in whichever order the adjacency yields them
MotifPop ==
    /\ pc = "while"
    /\ queue # <<>>
    /\ LET top == queue[Len(queue)]
           rest == SubSeq(queue, 1, Len(queue) - 1)
       IN  IF Len(top.path) > PathLimit
           THEN queue' = rest /\ motif_counts' = motif_counts
           ELSE \E order \in Orders(Successors(G, top.curr)) :
                   LET r == ForSuccessors(order, 1, top.path, rest, motif_counts)
                   IN  queue' = r.queue /\ motif_counts' = r.counts
    /\ UNCHANGED <<G, pc, outcome, mnode>>
    /\ UNCHANGED <<simVars, cycVars, colVars, bldVars>>

\* the queue is empty: the next node
MotifNextNode ==
    /\ pc = "while"
    /\ queue = <<>>
    /\ mnode' = mnode + 1
    /\ pc' = "for"
    /\ UNCHANGED <<G, outcome, queue, motif_counts>>
    /\ UNCHANGED <<simVars, cycVars, colVars, bldVars>>

\* return motif_counts
ReturnMotifs ==
    /\ pc = "for"
    /\ mnode \notin G.nodes
    /\ outcome' = "ok"
    /\ pc' = "done"
    /\ UNCHANGED <<G, mnode, queue, motif_counts>>
    /\ UNCHANGED <<simVars, cycVars, colVars, bldVars>>

NextMotifs == MotifStart \/ MotifPop \/ MotifNextNode \/ ReturnMotifs

SpecMotifs == InitMotifs /\ [][NextMotifs]_vars

(***************************************************************************)
(* Claims about pcn_analysis                                               *)
(***************************************************************************)

\* the directed walks of g with exactly k edges, as node sequences
Walks(g, k) ==
    {w \in [1 .. (k + 1) -> g.nodes] :
        \A i \in 1 .. k : <<w[i], w[i + 1]>> \in g.edges}

\* C5: the keys of the returned count table are exactly the directed walks
\* of G with 1, 2 or 3 edges; in particular every 3-edge walk is recorded.
C5_MotifKeys ==
    pc = "done" =>
        DOMAIN motif_counts = Walks(G, 1) \cup Walks(G, 2) \cup Walks(G, 3)

(***************************************************************************)
(* collapse_graph (pcnImplementation.py)                                   *)
(***************************************************************************)

ColNodes == 3
ColMaxEdges == 2

\* the graphs collapse_graph is run on: any DiGraph over range(ColNodes)
ColGraphs == {[nodes |-> Range(ColNodes), edges |-> E] :
                 E \in EdgeSets(Pairs(Range(ColNodes)), ColMaxEdges)}

\* the cluster ids: as many as there are nodes, so that every node can have
\* a cluster of its own
ClusterIds == Range(ColNodes)

\* the clustering dicts: a cluster id for some or all of the nodes
Clusterings(g) == UNION {[D -> ClusterIds] : D \in SUBSET g.nodes}

\* set(clustering.values())
Values(c) == {c[v] : v \in DOMAIN c}

InitCollapse ==
    /\ G \in ColGraphs
    /\ clustering \in Clusterings(G)
    /\ H = <<>>
    /\ pc = "call"
    /\ outcome = "none"
    /\ IdleSim /\ IdleCyc /\ IdleMot /\ IdleBld

\* the edge added with weight 1 whether or not it is there already
AddNoIncrement(h, c_u, c_v) ==
    [h EXCEPT !.weight = [e \in DOMAIN h.weight \cup {<<c_u, c_v>>} |->
                             IF e = <<c_u, c_v>> THEN 1 ELSE h.weight[e]]]

\* the edge added from c_v to c_u
AddReversed(h, c_u, c_v) ==
    IF <<c_v, c_u>> \notin DOMAIN h.weight
    THEN [h EXCEPT !.weight = [e \in DOMAIN h.weight \cup {<<c_v, c_u>>} |->
                                 IF e = <<c_v, c_u>> THEN 1 ELSE h.weight[e]]]
    ELSE [h EXCEPT !.weight[<<c_v, c_u>>] = @ + 1]

\* if not H.has_edge(c_u, c_v): H.add_edge(c_u, c_v, weight=1)
\* else: H[c_u][c_v]['weight'] += 1
AddOrAggregate(h, c_u, c_v) ==
    IF <<c_u, c_v>> \notin DOMAIN h.weight
    THEN [h EXCEPT !.weight = [e \in DOMAIN h.weight \cup {<<c_u, c_v>>} |->
                                 IF e = <<c_u, c_v>> THEN 1 ELSE h.weight[e]]]
    ELSE [h EXCEPT !.weight[<<c_u, c_v>>] = @ + 1]

\* "for (u, v) in G.edges()" over the edges order[i..], with H as it stands;
\* clustering[u] or clustering[v] of a missing key raises KeyError, which
\* ends the call without a graph
RECURSIVE ForEdges(_, _, _, _)
ForEdges(order, i, c, h) ==
    IF i > Len(order) THEN [outcome |-> "ok", H |-> h]
    ELSE LET u == order[i][1]
             v == order[i][2]
         IN  IF u \notin DOMAIN c \/ v \notin DOMAIN c
             THEN [outcome |-> "KeyError", H |-> <<>>]
             ELSE IF c[u] # c[v]
             THEN ForEdges(order, i + 1, c, AddOrAggregate(h, c[u], c[v]))
             ELSE ForEdges(order, i + 1, c, h)

\* cluster_nodes = set(clustering.values()); H = nx.DiGraph();
\* H.add_nodes_from(cluster_nodes)
EmptyCollapsed(c) == [nodes |-> Values(c), weight |-> <<>>]

\* collapse_graph(G, clustering), the edges in whichever order G.edges()
\* yields them
Collapse ==
    /\ pc = "call"
    /\ \E order \in Orders(G.edges) :
          LET r == ForEdges(order, 1, clustering, EmptyCollapsed(clustering))
          IN  H' = r.H /\ outcome' = r.outcome
    /\ pc' = "done"
    /\ UNCHANGED <<G, clustering>>
    /\ UNCHANGED <<simVars, cycVars, motVars, bldVars>>

NextCollapse == Collapse

SpecCollapse == InitCollapse /\ [][NextCollapse]_vars

(***************************************************************************)
(* Claims about collapse_graph                                             *)
(***************************************************************************)

\* the clustering has an entry for every node of g
Total(c, g) == DOMAIN c = g.nodes

\* the edges of g that run from cluster a to cluster b
EdgesBetween(g, c, a, b) == {e \in g.edges : c[e[1]] = a /\ c[e[2]] = b}

\* the sum of the weights w over the edge set E
RECURSIVE SumWeights(_, _)
SumWeights(w, E) ==
    IF E = {} THEN 0
    ELSE LET e == CHOOSE x \in E : TRUE
         IN  w[e] + SumWeights(w, E \ {e})

\* C6: for a total clustering the collapsed graph has the edge (a, b)
\* exactly when a # b and some edge of G runs from cluster a to cluster b,
\* its weight is the number of such edges, the weights sum to the number of
\* edges of G between different clusters, and there is no self-loop.
C6_CollapseWeights ==
    (pc = "done" /\ Total(clustering, G)) =>
        /\ outcome = "ok"
        /\ \A a, b \in ClusterIds :
              /\ <<a, b>> \in DOMAIN H.weight <=>
                    (a # b /\ EdgesBetween(G, clustering, a, b) # {})
              /\ <<a, b>> \in DOMAIN H.weight =>
                    H.weight[<<a, b>>] = Cardinality(EdgesBetween(G, clustering, a, b))
        /\ SumWeights(H.weight, DOMAIN H.weight) =
              Cardinality({e \in G.edges : clustering[e[1]] # clustering[e[2]]})
        /\ \A e \in DOMAIN H.weight : e[1] # e[2]

\* a collapse under a total clustering that merged the two edges of G into
\* one edge of weight 2
C6_Witness ==
    /\ pc = "done"
    /\ Total(clustering, G)
    /\ outcome = "ok"
    /\ \E e \in DOMAIN H.weight : H.weight[e] = 2
    /\ Cardinality(G.edges) = 2

\* every node has a cluster of its own
Injective(c) == \A u, v \in DOMAIN c : u # v => c[u] # c[v]

\* the collapsed graph is G renamed by the clustering, all weights 1
IsomorphicCopy ==
    /\ outcome = "ok"
    /\ Cardinality(H.nodes) = Cardinality(G.nodes)
    /\ DOMAIN H.weight = {<<clustering[e[1]], clustering[e[2]]>> : e \in G.edges}
    /\ \A e \in DOMAIN H.weight : H.weight[e] = 1

\* C7 as stated: for every graph G, collapsing with a clustering that gives
\* each node a cluster of its own yields a graph isomorphic to G with all
\* weights 1.
C7_IdentityIsomorphic ==
    (pc = "done" /\ Total(clustering, G) /\ Injective(clustering)) => IsomorphicCopy

\* G has no edge from a node to itself
NoSelfLoops(g) == \A v \in g.nodes : <<v, v>> \notin g.edges

\* C7 amended: for every graph G without self-loops, collapsing with a
\* clustering that gives each node a cluster of its own yields a graph
\* isomorphic to G with all weights 1.
C7_IdentityIsomorphicNoSelfLoops ==
    (/\ pc = "done"
     /\ Total(clustering, G)
     /\ Injective(clustering)
     /\ NoSelfLoops(G)) => IsomorphicCopy

\* a collapse of a two-edge graph without self-loops under a clustering
\* that gives each node a cluster of its own and is not the identity map
C7_Witness ==
    /\ pc = "done"
    /\ Total(clustering, G)
    /\ Injective(clustering)
    /\ NoSelfLoops(G)
    /\ Cardinality(G.edges) = 2
    /\ \E v \in G.nodes : clustering[v] # v
    /\ Cardinality(DOMAIN H.weight) = 2

\* C8: a clustering that omits a node of G makes collapse fail and return
\* no graph.
C8_IncompleteRejected ==
    (pc = "done" /\ ~Total(clustering, G)) => (outcome # "ok" /\ H = <<>>)

(***************************************************************************)
(* build_toy_brain (simulateCycles.py)                                     *)
(***************************************************************************)

MaxBuildNodes == 5
MaxBuildCycles == 2

\* random.randint(3, 6)
MinCycleLength == 3
MaxCycleLength == 6

\* G = nx.DiGraph(); G.add_nodes_from(range(n_nodes))
InitBuild ==
    /\ n_nodes \in 0 .. MaxBuildNodes
    /\ n_cycles \in 0 .. MaxBuildCycles
    /\ G = [nodes |-> Range(n_nodes), edges |-> {}]
    /\ iter = 0
    /\ pc = "for"
    /\ outcome = "none"
    /\ IdleSim /\ IdleCyc /\ IdleMot /\ IdleCol

\* random.sample(range(n_nodes), cycle_length): every sequence of
\* cycle_length distinct nodes
Samples(S, k) ==
    {p \in [1 .. k -> S] : \A i, j \in 1 .. k : i # j => p[i] # p[j]}

\* the edges cycle_nodes[i] -> cycle_nodes[(i+1) % cycle_length]
CycleEdges(cycle_nodes) ==
    {<<cycle_nodes[i], cycle_nodes[(i % Len(cycle_nodes)) + 1]>> :
        i \in 1 .. Len(cycle_nodes)}

\* one iteration of "for _ in range(n_cycles)" whose sample succeeds
EmbedCycle ==
    /\ pc = "for"
    /\ iter < n_cycles
    /\ \E cycle_length \in MinCycleLength .. MaxCycleLength :
          /\ cycle_length <= n_nodes
          /\ \E cycle_nodes \in Samples(G.nodes, cycle_length) :
                G' = [G EXCEPT !.edges = @ \cup CycleEdges(cycle_nodes)]
    /\ iter' = iter + 1
    /\ UNCHANGED <<pc, outcome, n_nodes, n_cycles>>
    /\ UNCHANGED <<simVars, cycVars, motVars, colVars>>

\* one iteration whose cycle_length exceeds the population: random.sample
\* raises ValueError and no graph is returned
SampleTooLarge ==
    /\ pc = "for"
    /\ iter < n_cycles
    /\ \E cycle_length \in MinCycleLength .. MaxCycleLength :
          cycle_length > n_nodes
    /\ outcome' = "ValueError"
    /\ pc' = "done"
    /\ UNCHANGED <<G, n_nodes, n_cycles, iter>>
    /\ UNCHANGED <<simVars, cycVars, motVars, colVars>>

\* return G
ReturnGraph ==
    /\ pc = "for"
    /\ iter = n_cycles
    /\ outcome' = "ok"
    /\ pc' = "done"
    /\ UNCHANGED <<G, n_nodes, n_cycles, iter>>
    /\ UNCHANGED <<simVars, cycVars, motVars, colVars>>

NextBuild == EmbedCycle \/ SampleTooLarge \/ ReturnGraph

SpecBuild == InitBuild /\ [][NextBuild]_vars

(***************************************************************************)
(* Claims about build_toy_brain                                            *)
(***************************************************************************)

\* C9: with n_nodes >= 3 the call ends without error whatever is drawn, and
\* returns a graph on the nodes 0 .. n_nodes-1 whose edges join nodes of
\* that set; the only failure is n_nodes < 3 with n_cycles > 0.
C9_BuildNeverFails ==
    pc = "done" =>
        /\ outcome # "ok" <=> (n_nodes < 3 /\ n_cycles > 0)
        /\ outcome = "ok" =>
              /\ G.nodes = Range(n_nodes)
              /\ G.edges \subseteq G.nodes \X G.nodes

====
